---- MODULE Spec2Model ----
(***************************************************************************)
(* Model of the sysrepo-python cffi build sources.                         *)
(*                                                                         *)
(* src/cffi/source.c is the only file with logic of its own: two           *)
(* preprocessor guards over the version macros that <sysrepo/version.h>    *)
(* of the installed native library defines.  src/cffi/cdefs.h holds only   *)
(* declarations (types, enums, prototypes) of the native library and has   *)
(* no behaviour to model.                                                  *)
(*                                                                         *)
(* The translation of source.c is modelled as a state machine: the         *)
(* preprocessor walks the file top to bottom, evaluates each #if, and      *)
(* emits the #error diagnostic of a group whose condition is true.  The C  *)
(* standard does not say whether translation stops at the first #error or  *)
(* goes on to report later ones, and compilers differ, so both outcomes    *)
(* are allowed after a diagnostic.                                         *)
(***************************************************************************)
EXTENDS Integers, Sequences, FiniteSets

\* Largest SR_VERSION_MAJOR and SR_VERSION_MINOR the model draws.  An
\* undefined macro evaluates to 0 inside #if, so 0 covers that case too.
MaxMajor == 9
MaxMinor == 14

\* source.c:9   #if (SR_VERSION_MAJOR != 7)
RequiredMajor == 7
\* source.c:12  #if (SR_VERSION_MINOR < 10)
MinMinor == 10

\* source.c:10
MsgMajor == "This version of sysrepo bindings only works with libsysrepo.so.7"
\* source.c:13
MsgMinor == "Need at least libsysrepo.so.7.10"

VARIABLES
    SR_VERSION_MAJOR,   \* macro from <sysrepo/version.h>
    SR_VERSION_MINOR,   \* macro from <sysrepo/version.h>
    pc,                 \* the preprocessor's position in source.c
    errors              \* #error diagnostics emitted so far, in order

vars == <<SR_VERSION_MAJOR, SR_VERSION_MINOR, pc, errors>>

\* Condition of the #if at source.c:9.
MajorMismatch(major) == major # RequiredMajor

MinorTooOldOffByOne(minor) == minor <= MinMinor

\* Condition of the #if at source.c:12.
MinorTooOld(minor) == minor < MinMinor

\* The translation unit as handed to the preprocessor: the version macros
\* have whatever value the installed header gives them, nothing is emitted.
Init ==
    /\ SR_VERSION_MAJOR \in 0..MaxMajor
    /\ SR_VERSION_MINOR \in 0..MaxMinor
    /\ pc = "line9"
    /\ errors = <<>>

\* source.c:9-11
MajorGuard ==
    /\ pc = "line9"
    /\ IF MajorMismatch(SR_VERSION_MAJOR)
         THEN /\ errors' = Append(errors, MsgMajor)
              /\ pc' \in {"line12", "halted"}
         ELSE /\ errors' = errors
              /\ pc' = "line12"
    /\ UNCHANGED <<SR_VERSION_MAJOR, SR_VERSION_MINOR>>

\* source.c:12-14; line 14 is the last line of the file.
MinorGuard ==
    /\ pc = "line12"
    /\ IF MinorTooOld(SR_VERSION_MINOR)
         THEN /\ errors' = Append(errors, MsgMinor)
              /\ pc' \in {"done", "halted"}
         ELSE /\ errors' = errors
              /\ pc' = "done"
    /\ UNCHANGED <<SR_VERSION_MAJOR, SR_VERSION_MINOR>>

Next == MajorGuard \/ MinorGuard

Spec == Init /\ [][Next]_vars

\* Translation is over: end of file reached, or stopped at an #error.
Finished == pc \in {"done", "halted"}

\* The source is accepted when the whole file was read and no #error fired.
Accepted == pc = "done" /\ errors = <<>>

Emitted(msg) == \E i \in 1..Len(errors) : errors[i] = msg

\* C10: once translation of source.c is over, the source is accepted if and
\* only if SR_VERSION_MAJOR is 7 and SR_VERSION_MINOR is at least 10; any
\* major other than 7 is rejected with the "only works with libsysrepo.so.7"
\* diagnostic whatever the minor; major 7 with a minor below 10 is rejected
\* with exactly the "Need at least libsysrepo.so.7.10" diagnostic.
VersionGuard ==
    Finished =>
        /\ Accepted <=> (SR_VERSION_MAJOR = 7 /\ SR_VERSION_MINOR >= 10)
        /\ SR_VERSION_MAJOR # 7 => (~Accepted /\ Emitted(MsgMajor))
        /\ (SR_VERSION_MAJOR = 7 /\ SR_VERSION_MINOR < 10) =>
               (~Accepted /\ errors = <<MsgMinor>>)

\* The boundary version 7.10 has been translated to the end and accepted.
VersionGuardWitness ==
    /\ pc = "done"
    /\ SR_VERSION_MAJOR = 7
    /\ SR_VERSION_MINOR = 10
    /\ errors = <<>>
====
